---- MODULE Spec2Model ----
(***************************************************************************)
(* Model of workout_api/atleta/controller.py: the five request handlers of *)
(* the Atleta resource (post, query, get, patch, delete) running as        *)
(* concurrent coroutines, one database session each, over one table of     *)
(* athlete rows.  A handler is cut at its awaits: every database round     *)
(* trip is one step, and other requests may run in between.                *)
(*                                                                         *)
(* What the session and the database do at those awaits is taken from      *)
(* SQLAlchemy and a READ COMMITTED database:                               *)
(*  - a select sees the committed rows;                                    *)
(*  - commit() flushes, then commits.  The flush of a new object is an     *)
(*    INSERT; it waits for an uncommitted row with the same unique key and *)
(*    raises IntegrityError if that key is committed.  The flush of a      *)
(*    loaded object is an UPDATE of the attributes whose value differs     *)
(*    from the loaded one (no UPDATE if none does), and raises             *)
(*    StaleDataError if it matches no row.  The flush of a deleted object  *)
(*    is a DELETE, which only warns if it matches no row.  UPDATE and      *)
(*    DELETE hold the row's lock until the COMMIT that follows in the same *)
(*    await, so they are one step with it;                                 *)
(*  - refresh() raises InvalidRequestError if the row is gone;             *)
(*  - any INSERT or COMMIT may fail for a reason of the database's own.    *)
(***************************************************************************)
EXTENDS Integers, Sequences, FiniteSets, TLC

\* ------------------------------------------------------------------ bounds
\* Number of requests of one run; request p is served by coroutine p.
NReqs == 2

Procs == 1..NReqs

\* ------------------------------------------------------- program constants
HTTP_200_OK == 200
HTTP_201_CREATED == 201
HTTP_204_NO_CONTENT == 204
HTTP_400_BAD_REQUEST == 400
HTTP_404_NOT_FOUND == 404
HTTP_409_CONFLICT == 409
HTTP_500_INTERNAL_SERVER_ERROR == 500

\* ------------------------------------------------------------ input domains
\* Strings that are matched character by character are sequences of
\* one-character strings.
Ana == <<"A", "n", "a">>
Bo == <<"B", "o">>
Nomes == {Ana, Bo}
Cpfs == {"111", "222"}

\* Rows of the categorias and centros_treinamento tables (read only here).
Categorias == {"Scale"}
CentrosTreinamento == {"CT King"}
CategoriaNomes == Categorias \cup {"Elite"}
CentroNomes == CentrosTreinamento \cup {"CT Nope"}

\* Rows the table may hold when the run starts, left by earlier requests.
SeedA ==
    [id |-> 11, nome |-> Ana, cpf |-> "111", peso |-> 70,
     categoria |-> "Scale", centro |-> "CT King"]

SeedB ==
    [id |-> 12, nome |-> Bo, cpf |-> "222", peso |-> 70,
     categoria |-> "Scale", centro |-> "CT King"]

SeedDbs == {{}, {SeedA}, {SeedA, SeedB}}

\* The ids get, patch and delete are asked for: the two seeded rows and the
\* row of request 1 (no row at all unless request 1 is a post that succeeds).
TargetIds == {1, 11, 12}

\* Optional[str]: the empty set is None, {s} is the string s.
NomeFilters == {{}, {<<"A", "N">>}, {<<"_", "n">>}}
CpfFilters == {{}, {""}, {"111"}}

\* AtletaUpdate bodies, as the dict model_dump(exclude_unset=True) gives:
\* only the fields the client sent.
NoUpdate == [nome |-> {}, peso |-> {}]

Updates ==
    { NoUpdate,
      [nome |-> {}, peso |-> {70}],
      [nome |-> {}, peso |-> {80}],
      [nome |-> {Bo}, peso |-> {}] }

Ops == {"post", "query", "get", "patch", "delete"}

\* A request: the operation and its parameters.  A parameter is drawn when
\* the handler first reads it (a request is immutable, so this is the same as
\* drawing it on arrival); until then it keeps the value it has here.
Request(op) ==
    [op |-> op, id |-> 0, nome |-> <<>>, cpf |-> "", peso |-> 0,
     categoria |-> "", centro |-> "", upd |-> NoUpdate,
     fnome |-> {}, fcpf |-> {}]

\* ------------------------------------------------------------------- state
VARIABLES
    db,       \* the committed rows of the atletas table
    pend,     \* pend[p]: the row p has inserted and not yet committed
    pc,       \* pc[p]: the await coroutine p is suspended at
    req,      \* req[p]: the request p serves
    loaded,   \* loaded[p]: the ORM object p's select returned ({} if none)
    status,   \* status[p]: the HTTP status p's handler answered with (0: none)
    body,     \* body[p]: the rows of p's response
    exc,      \* exc[p]: the exception that left p's handler uncaught
    cause,    \* cause[p]: the persistence error p's insert or commit met
    rolled,   \* rolled[p]: p called db_session.rollback()
    gone,     \* ids a delete has removed and answered 204 for
    raced,    \* pairs of posts whose inserts of one CPF were in flight together
    db0       \* the rows the table held when the run started

vars ==
    <<db, pend, pc, req, loaded, status, body, exc, cause, rolled, gone, raced,
      db0>>

Init ==
    /\ db \in SeedDbs
    /\ pend = [p \in Procs |-> {}]
    /\ pc = [p \in Procs |-> "idle"]
    /\ req = [p \in Procs |-> Request("none")]
    /\ loaded = [p \in Procs |-> {}]
    /\ status = [p \in Procs |-> 0]
    /\ body = [p \in Procs |-> {}]
    /\ exc = [p \in Procs |-> "none"]
    /\ cause = [p \in Procs |-> "none"]
    /\ rolled = [p \in Procs |-> FALSE]
    /\ gone = {}
    /\ raced = {}
    /\ db0 = db

\* ------------------------------------------------------------ pure helpers
\* lower() of one character, as ILIKE folds case.
Lower(c) ==
    CASE c = "A" -> "a"
      [] c = "B" -> "b"
      [] c = "N" -> "n"
      [] c = "O" -> "o"
      [] OTHER -> c

\* SQL LIKE over case-folded characters: % is any run, _ is any one character.
RECURSIVE LikeMatch(_, _)
LikeMatch(s, pat) ==
    IF pat = <<>> THEN s = <<>>
    ELSE IF Head(pat) = "%"
         THEN LikeMatch(s, Tail(pat)) \/ (s # <<>> /\ LikeMatch(Tail(s), pat))
         ELSE /\ s # <<>>
              /\ (Head(pat) = "_" \/ Lower(Head(s)) = Lower(Head(pat)))
              /\ LikeMatch(Tail(s), Tail(pat))

\* LIKE without the case folding.
RECURSIVE LikeMatchCase(_, _)
LikeMatchCase(s, pat) ==
    IF pat = <<>> THEN s = <<>>
    ELSE IF Head(pat) = "%"
         THEN \/ LikeMatchCase(s, Tail(pat))
              \/ (s # <<>> /\ LikeMatchCase(Tail(s), pat))
         ELSE /\ s # <<>>
              /\ (Head(pat) = "_" \/ Head(s) = Head(pat))
              /\ LikeMatchCase(Tail(s), Tail(pat))

\* Faulty variant: like() in place of ilike().
LikeCaseSensitive(nome, filtro) ==
    LikeMatchCase(nome, <<"%">> \o filtro \o <<"%">>)

\* AtletaModel.nome.ilike(f"%{nome}%")
ILike(nome, filtro) == LikeMatch(nome, <<"%">> \o filtro \o <<"%">>)

\* The value of an Optional that is not None.
Val(opt) == CHOOSE x \in opt : TRUE

\* Python truthiness of an Optional[str]: None and "" are both false.
\* (nome is a sequence of characters here, cpf an atomic string.)
TruthyNome(opt) == opt # {} /\ Len(Val(opt)) > 0

TruthyCpf(opt) == opt # {} /\ Val(opt) # ""

\* The filters query() adds to select(AtletaModel).
Matches(r, fnome, fcpf) ==
    /\ TruthyNome(fnome) => ILike(r.nome, Val(fnome))
    /\ TruthyCpf(fcpf) => r.cpf = Val(fcpf)

\* select(AtletaModel).filter_by(id=id) ... .scalars().first()
SelectById(rows, id) == { r \in rows : r.id = id }

\* The unique constraint on atletas.cpf: does inserting cpf violate it?
CpfTaken(rows, cpf) == \E r \in rows : r.cpf = cpf

\* The AtletaModel instance post() builds for request p: uuid4() is fresh for
\* every request, so the request's own number stands for it.
NewRow(p, r) ==
    [id |-> p, nome |-> r.nome, cpf |-> r.cpf, peso |-> r.peso,
     categoria |-> r.categoria, centro |-> r.centro]

\* Faulty variant: model_dump() without exclude_unset, so that the fields
\* the client did not send are set too, to their defaults.
ApplyUpdateUnset(row, upd) ==
    [row EXCEPT !.nome = IF upd.nome = {} THEN <<>> ELSE Val(upd.nome),
                !.peso = IF upd.peso = {} THEN 0 ELSE Val(upd.peso)]

\* for key, value in atleta_update.items(): setattr(atleta, key, value)
ApplyUpdate(row, upd) ==
    [row EXCEPT !.nome = IF upd.nome = {} THEN @ ELSE Val(upd.nome),
                !.peso = IF upd.peso = {} THEN @ ELSE Val(upd.peso)]

\* The columns the flush of commit() writes: the unit of work compares each
\* attribute that was set with the value it loaded and skips the equal ones.
ChangedCols(old, new) ==
    (IF old.nome # new.nome THEN {"nome"} ELSE {})
      \cup (IF old.peso # new.peso THEN {"peso"} ELSE {})

\* UPDATE atletas SET <changed columns> WHERE the row is old's.
UpdateRow(cur, old, new) ==
    LET cols == ChangedCols(old, new)
    IN [cur EXCEPT !.nome = IF "nome" \in cols THEN new.nome ELSE @,
                   !.peso = IF "peso" \in cols THEN new.peso ELSE @]

\* The errors an INSERT of row can end with: the unique violation when the
\* CPF is taken, otherwise success; and, whatever the CPF, another integrity
\* constraint failing or the database failing.
InsertErrors(rows, row) ==
    (IF CpfTaken(rows, row.cpf) THEN {"unique_cpf"} ELSE {"none"})
      \cup {"integrity_other", "db_error"}

\* The errors a COMMIT can end with.
CommitErrors == {"none", "db_error"}

\* sqlalchemy.exc.IntegrityError covers every integrity constraint.
IsIntegrityError(err) == err \in {"unique_cpf", "integrity_other"}

\* Faulty variant: the 303 the handler's comment offers in place of the 409.
ExceptStatusSeeOther(err) ==
    IF IsIntegrityError(err) THEN 303
    ELSE HTTP_500_INTERNAL_SERVER_ERROR

\* The except clauses of post(): the status of the HTTPException raised.
ExceptStatus(err) ==
    IF IsIntegrityError(err) THEN HTTP_409_CONFLICT
    ELSE HTTP_500_INTERNAL_SERVER_ERROR

\* ------------------------------------------------------------------ steps
Finish(p, st, rows) ==
    /\ pc' = [pc EXCEPT ![p] = "done"]
    /\ status' = [status EXCEPT ![p] = st]
    /\ body' = [body EXCEPT ![p] = rows]

Goto(p, label) ==
    /\ pc' = [pc EXCEPT ![p] = label]
    /\ UNCHANGED <<status, body>>

\* An exception nothing in the handler catches.
Escape(p, e) ==
    /\ pc' = [pc EXCEPT ![p] = "done"]
    /\ exc' = [exc EXCEPT ![p] = e]
    /\ UNCHANGED <<status, body>>

FirstLabel(op) ==
    CASE op = "post" -> "post_categoria"
      [] op = "query" -> "query_execute"
      [] op = "get" -> "get_select"
      [] op = "patch" -> "patch_select"
      [] op = "delete" -> "delete_select"

\* A request arrives.  Requests are numbered in arrival order.
Start(p) ==
    /\ pc[p] = "idle"
    /\ \A q \in 1..(p - 1) : pc[q] # "idle"
    /\ \E op \in Ops :
          /\ req' = [req EXCEPT ![p] = Request(op)]
          /\ pc' = [pc EXCEPT ![p] = FirstLabel(op)]
    /\ UNCHANGED <<db, pend, loaded, status, body, exc, cause, rolled, gone,
                   raced, db0>>

\* post(): the categoria lookup and its 400.
PostCategoria(p) ==
    /\ pc[p] = "post_categoria"
    /\ \E ca \in CategoriaNomes :
          /\ req' = [req EXCEPT ![p].categoria = ca]
          /\ IF ca \in Categorias
             THEN Goto(p, "post_centro")
             ELSE Finish(p, HTTP_400_BAD_REQUEST, {})
    /\ UNCHANGED <<db, pend, loaded, exc, cause, rolled, gone, raced, db0>>

\* The requests whose INSERT of cpf is racing: built, and not yet answered.
Inserting(cpf) ==
    { q \in Procs :
        pc[q] \in {"post_insert", "post_commit"} /\ req[q].cpf = cpf }

\* Faulty variant: the centro_treinamento lookup without its check.
PostCentroUnchecked(p) ==
    /\ pc[p] = "post_centro"
    /\ \E ce \in CentroNomes, n \in Nomes, c \in Cpfs :
          /\ req' = [req EXCEPT ![p].centro = ce, ![p].nome = n,
                                ![p].cpf = c, ![p].peso = 70]
          /\ raced' = raced \cup { {p, q} : q \in Inserting(c) }
          /\ Goto(p, "post_insert")
    /\ UNCHANGED <<db, pend, loaded, exc, cause, rolled, gone, db0>>

\* post(): the centro_treinamento lookup and its 400; then, with no await in
\* between, AtletaOut and AtletaModel are built from the body and
\* db_session.add registers the row.
PostCentro(p) ==
    /\ pc[p] = "post_centro"
    /\ \E ce \in CentroNomes, n \in Nomes, c \in Cpfs :
          IF ce \in CentrosTreinamento
          THEN /\ req' = [req EXCEPT ![p].centro = ce, ![p].nome = n,
                                     ![p].cpf = c, ![p].peso = 70]
               /\ raced' = raced \cup { {p, q} : q \in Inserting(c) }
               /\ Goto(p, "post_insert")
          ELSE /\ req' = [req EXCEPT ![p].centro = ce]
               /\ Finish(p, HTTP_400_BAD_REQUEST, {})
               /\ UNCHANGED raced
    /\ UNCHANGED <<db, pend, loaded, exc, cause, rolled, gone, db0>>

\* Faulty variant: the handler raises without db_session.rollback().
PostFailNoRollback(p, err) ==
    /\ cause' = [cause EXCEPT ![p] = err]
    /\ Finish(p, ExceptStatus(err), {})
    /\ UNCHANGED <<db, pend, rolled>>

\* The handler of a persistence error in post(): rollback, then the
\* HTTPException.
PostFail(p, err) ==
    /\ pend' = [pend EXCEPT ![p] = {}]
    /\ rolled' = [rolled EXCEPT ![p] = TRUE]
    /\ cause' = [cause EXCEPT ![p] = err]
    /\ Finish(p, ExceptStatus(err), {})
    /\ UNCHANGED db

\* post(): the INSERT that commit() flushes.  The INSERT waits while another
\* transaction holds an uncommitted row with this CPF.
PostInsert(p) ==
    /\ pc[p] = "post_insert"
    /\ \A q \in Procs \ {p} : ~CpfTaken(pend[q], req[p].cpf)
    /\ \E err \in InsertErrors(db, NewRow(p, req[p])) :
          IF err = "none"
          THEN /\ pend' = [pend EXCEPT ![p] = {NewRow(p, req[p])}]
               /\ Goto(p, "post_commit")
               /\ UNCHANGED <<db, cause, rolled>>
          ELSE PostFail(p, err)
    /\ UNCHANGED <<req, loaded, exc, gone, raced, db0>>

\* post(): the COMMIT that ends commit(), and the 201.
PostCommit(p) ==
    /\ pc[p] = "post_commit"
    /\ \E err \in CommitErrors :
          IF err = "none"
          THEN /\ db' = db \cup pend[p]
               /\ pend' = [pend EXCEPT ![p] = {}]
               /\ Finish(p, HTTP_201_CREATED, pend[p])
               /\ UNCHANGED <<cause, rolled>>
          ELSE PostFail(p, err)
    /\ UNCHANGED <<req, loaded, exc, gone, raced, db0>>

\* query(): one select with the filters.  body is the list handed to
\* paginate, which windows it by the limit and offset of the request.
Query(p) ==
    /\ pc[p] = "query_execute"
    /\ \E fn \in NomeFilters, fc \in CpfFilters :
          /\ req' = [req EXCEPT ![p].fnome = fn, ![p].fcpf = fc]
          /\ Finish(p, HTTP_200_OK, { r \in db : Matches(r, fn, fc) })
    /\ UNCHANGED <<db, pend, loaded, exc, cause, rolled, gone, raced, db0>>

\* get(): the select, and the row or the 404.
Get(p) ==
    /\ pc[p] = "get_select"
    /\ \E id \in TargetIds :
          /\ req' = [req EXCEPT ![p].id = id]
          /\ IF SelectById(db, id) = {}
             THEN Finish(p, HTTP_404_NOT_FOUND, {})
             ELSE Finish(p, HTTP_200_OK, SelectById(db, id))
    /\ UNCHANGED <<db, pend, loaded, exc, cause, rolled, gone, raced, db0>>

\* Faulty variant: the select without "if not atleta": no row is answered
\* as null.
SelectNoRaise(p, from, to, ups) ==
    /\ pc[p] = from
    /\ \E id \in TargetIds, u \in ups :
          /\ req' = [req EXCEPT ![p].id = id, ![p].upd = u]
          /\ loaded' = [loaded EXCEPT ![p] = SelectById(db, id)]
          /\ IF SelectById(db, id) = {}
             THEN Finish(p, HTTP_200_OK, {})
             ELSE Goto(p, to)
    /\ UNCHANGED <<db, pend, exc, cause, rolled, gone, raced, db0>>

\* patch() and delete(): the select, and the 404.
Select(p, from, to, ups) ==
    /\ pc[p] = from
    /\ \E id \in TargetIds, u \in ups :
          /\ req' = [req EXCEPT ![p].id = id, ![p].upd = u]
          /\ loaded' = [loaded EXCEPT ![p] = SelectById(db, id)]
          /\ IF SelectById(db, id) = {}
             THEN Finish(p, HTTP_404_NOT_FOUND, {})
             ELSE Goto(p, to)
    /\ UNCHANGED <<db, pend, exc, cause, rolled, gone, raced, db0>>

PatchSelect(p) == Select(p, "patch_select", "patch_commit", Updates)

DeleteSelect(p) == Select(p, "delete_select", "delete_commit", {NoUpdate})

\* patch(): setattr of the fields sent, then commit(): the UPDATE of the
\* columns that changed (none: no UPDATE) and the COMMIT.  An UPDATE that
\* matches no row raises StaleDataError; nothing in patch() catches it.
PatchCommit(p) ==
    /\ pc[p] = "patch_commit"
    /\ LET old == Val(loaded[p])
           new == ApplyUpdate(old, req[p].upd)
           cur == SelectById(db, old.id)
       IN \E err \in CommitErrors :
            IF err # "none"
            THEN /\ Escape(p, "DBAPIError")
                 /\ cause' = [cause EXCEPT ![p] = err]
                 /\ UNCHANGED db
            ELSE IF ChangedCols(old, new) = {}
            THEN /\ Goto(p, "patch_refresh")
                 /\ UNCHANGED <<db, exc, cause>>
            ELSE IF cur = {}
            THEN /\ Escape(p, "StaleDataError")
                 /\ UNCHANGED <<db, cause>>
            ELSE /\ db' = (db \ cur) \cup {UpdateRow(Val(cur), old, new)}
                 /\ Goto(p, "patch_refresh")
                 /\ UNCHANGED <<exc, cause>>
    /\ UNCHANGED <<pend, req, loaded, rolled, gone, raced, db0>>

\* patch(): db_session.refresh(atleta) and the response.  A row that is gone
\* raises InvalidRequestError; nothing in patch() catches it.
PatchRefresh(p) ==
    /\ pc[p] = "patch_refresh"
    /\ IF SelectById(db, req[p].id) = {}
       THEN Escape(p, "InvalidRequestError")
       ELSE /\ Finish(p, HTTP_200_OK, SelectById(db, req[p].id))
            /\ UNCHANGED exc
    /\ UNCHANGED <<db, pend, req, loaded, cause, rolled, gone, raced, db0>>

\* Faulty variant: the DELETE is never committed.
DeleteRowUncommitted(rows, row) == rows

\* The rows left by DELETE FROM atletas WHERE the row is row's.
DeleteRow(rows, row) == rows \ SelectById(rows, row.id)

\* delete(): db_session.delete and commit(): the DELETE (a row already gone
\* is only warned about) and the COMMIT.  Nothing in delete() catches a
\* failure.
DeleteCommit(p) ==
    /\ pc[p] = "delete_commit"
    /\ \E err \in CommitErrors :
          IF err # "none"
          THEN /\ Escape(p, "DBAPIError")
               /\ cause' = [cause EXCEPT ![p] = err]
               /\ UNCHANGED <<db, gone>>
          ELSE /\ db' = DeleteRow(db, Val(loaded[p]))
               /\ gone' = gone \cup {req[p].id}
               /\ Finish(p, HTTP_204_NO_CONTENT, {})
               /\ UNCHANGED <<exc, cause>>
    /\ UNCHANGED <<pend, req, loaded, rolled, raced, db0>>

Next ==
    \E p \in Procs :
        \/ Start(p)
        \/ PostCategoria(p)
        \/ PostCentro(p)
        \/ PostInsert(p)
        \/ PostCommit(p)
        \/ Query(p)
        \/ Get(p)
        \/ PatchSelect(p)
        \/ PatchCommit(p)
        \/ PatchRefresh(p)
        \/ DeleteSelect(p)
        \/ DeleteCommit(p)

Spec == Init /\ [][Next]_vars

\* ----------------------------------------------------------------- claims
Done(p) == pc[p] = "done"

\* Coroutine p takes the step that leaves label.
Stepped(p, label) == pc[p] = label /\ pc'[p] # label

RowsWithCpf(rows, cpf) == { r \in rows : r.cpf = cpf }

\* p is a create that passed both reference checks.
BuiltPost(p) ==
    /\ req[p].op = "post"
    /\ req[p].categoria \in Categorias
    /\ req[p].centro \in CentrosTreinamento

\* ---- C1
C1_Inv == \A r1, r2 \in db : r1.cpf = r2.cpf => r1 = r2

C1_Step ==
    \A p \in Procs :
      /\ ( /\ Stepped(p, "post_insert")
           /\ RowsWithCpf(db, req[p].cpf) # {}
           /\ cause'[p] # "db_error" )
         => /\ Done(p)'
            /\ status'[p] = HTTP_409_CONFLICT
            /\ db' = db
            /\ Cardinality(RowsWithCpf(db', req[p].cpf)) = 1
      /\ ( /\ Stepped(p, "post_insert")
           /\ RowsWithCpf(db, req[p].cpf) = {}
           /\ cause'[p] = "none" )
         => pc'[p] = "post_commit" /\ db' = db
      /\ (Stepped(p, "post_commit") /\ cause'[p] = "none")
         => /\ Done(p)'
            /\ status'[p] = HTTP_201_CREATED
            /\ body'[p] = {NewRow(p, req[p])}
            /\ db' = db \cup {NewRow(p, req[p])}
            /\ Cardinality(RowsWithCpf(db', req[p].cpf)) = 1

\* C1: no two athlete rows ever share a CPF; a create whose CPF is free and
\* that meets no database failure answers 201 and adds its one row; a create
\* whose CPF is taken answers 409 (unless the database itself fails) and adds
\* none, so one row with that CPF exists afterwards.
C1_CpfUnique == []C1_Inv /\ [][C1_Step]_vars

\* Two creates with one CPF, one after the other: 201, then 409, one row.
C1_Witness ==
    \E p, q \in Procs :
      /\ p # q /\ Done(p) /\ Done(q)
      /\ BuiltPost(p) /\ BuiltPost(q) /\ req[p].cpf = req[q].cpf
      /\ {p, q} \notin raced
      /\ status[p] = HTTP_201_CREATED
      /\ status[q] = HTTP_409_CONFLICT /\ cause[q] = "unique_cpf"
      /\ RowsWithCpf(db, req[p].cpf) = {NewRow(p, req[p])}

\* ---- C2
\* p and q are two answered creates of one CPF that no database failure hit,
\* with the CPF held by no other row and no row deleted meanwhile.
C2_Pair(p, q) ==
    /\ p # q /\ Done(p) /\ Done(q)
    /\ BuiltPost(p) /\ BuiltPost(q) /\ req[p].cpf = req[q].cpf
    /\ cause[p] \in {"none", "unique_cpf"}
    /\ cause[q] \in {"none", "unique_cpf"}
    /\ gone = {}
    /\ \A r \in RowsWithCpf(db, req[p].cpf) : r.id \in {p, q}

C2_Outcome(w, l) ==
    /\ status[w] = HTTP_201_CREATED /\ ~rolled[w]
    /\ status[l] = HTTP_409_CONFLICT /\ rolled[l]
    /\ pend[w] = {} /\ pend[l] = {}
    /\ \E r \in db : RowsWithCpf(db, req[w].cpf) = {r} /\ r.id = w

\* C2: of two creates with one CPF, however their steps interleave, exactly
\* one answers 201, the other answers 409 after rolling back, and the one
\* visible row with that CPF is the winner's.
C2_OneWinner ==
    \A p, q \in Procs :
      C2_Pair(p, q) => C2_Outcome(p, q) \/ C2_Outcome(q, p)

\* The two inserts were in flight together, and the request that arrived
\* second won.
C2_Witness ==
    \E p, q \in Procs :
      /\ C2_Pair(p, q) /\ {p, q} \in raced
      /\ p > q /\ C2_Outcome(p, q)

\* ---- C3
C3_Step ==
    \A p \in Procs :
      /\ (Stepped(p, "post_categoria") \/ Stepped(p, "post_centro"))
         => db' = db /\ pend' = pend
      /\ ( \/ /\ Stepped(p, "post_categoria")
              /\ req'[p].categoria \notin Categorias
           \/ /\ Stepped(p, "post_centro")
              /\ req'[p].centro \notin CentrosTreinamento )
         => Done(p)' /\ status'[p] = HTTP_400_BAD_REQUEST /\ exc'[p] = "none"

C3_Inv ==
    \A p \in Procs :
      (Done(p) /\ req[p].op = "post" /\ ~BuiltPost(p))
        => /\ status[p] = HTTP_400_BAD_REQUEST
           /\ SelectById(db, p) = {} /\ pend[p] = {}

\* C3: a create whose categoria name or centro_treinamento name resolves to
\* no record answers 400, and none of its steps changes the athlete rows.
C3_MissingReference == []C3_Inv /\ [][C3_Step]_vars

\* The categoria resolves, the centro de treinamento does not.
C3_Witness ==
    \E p \in Procs :
      /\ Done(p) /\ req[p].op = "post"
      /\ req[p].categoria \in Categorias
      /\ req[p].centro \in CentroNomes \ CentrosTreinamento
      /\ status[p] = HTTP_400_BAD_REQUEST
      /\ db # {}

\* ---- C4
SelectLabels == {"get_select", "patch_select", "delete_select"}

C4_Step ==
    \A p \in Procs :
      \A label \in SelectLabels :
        Stepped(p, label) =>
          IF SelectById(db, req'[p].id) = {}
          THEN /\ Done(p)' /\ status'[p] = HTTP_404_NOT_FOUND
               /\ exc'[p] = "none"
               /\ db' = db /\ pend' = pend
          ELSE status'[p] # HTTP_404_NOT_FOUND

\* C4: a get, patch or delete whose id matches no row answers 404 and leaves
\* the database as it was.
C4_NotFound == [][C4_Step]_vars

\* A patch and a delete of ids that match no row, other rows present.
C4_Witness ==
    \E p, q \in Procs :
      /\ Done(p) /\ req[p].op = "patch" /\ status[p] = HTTP_404_NOT_FOUND
      /\ Done(q) /\ req[q].op = "delete" /\ status[q] = HTTP_404_NOT_FOUND
      /\ db # {} /\ gone = {}

\* ---- C5
\* The row r2 equals r1 outside nome and peso, the fields a patch can send.
SameFixedFields(r1, r2) ==
    /\ r1.id = r2.id /\ r1.cpf = r2.cpf
    /\ r1.categoria = r2.categoria /\ r1.centro = r2.centro

\* The step is a commit of patch p that raised nothing.
PatchCommitted(p) == Stepped(p, "patch_commit") /\ pc'[p] = "patch_refresh"

\* Every row but the one with this id is the same before and after the step.
OthersUnchanged(id) ==
    { r \in db : r.id # id } = { r \in db' : r.id # id }

\* The response of a patch is the row as the refresh read it.
C5_Refresh(p) ==
    (Stepped(p, "patch_refresh") /\ status'[p] = HTTP_200_OK)
      => /\ body'[p] = SelectById(db, req[p].id)
         /\ Cardinality(body'[p]) = 1
         /\ db' = db

C5_Step ==
    \A p \in Procs :
      /\ PatchCommitted(p) =>
           LET old == Val(loaded[p])
               upd == req[p].upd
               cur == SelectById(db, old.id)
               now == SelectById(db', old.id)
               sets(present, was) == present # {} /\ Val(present) # was
           IN /\ OthersUnchanged(old.id)
              /\ Cardinality(now) = Cardinality(cur)
              /\ \A c \in cur, n \in now :
                    /\ SameFixedFields(c, n)
                    /\ n.nome = IF sets(upd.nome, old.nome)
                                THEN Val(upd.nome) ELSE c.nome
                    /\ n.peso = IF sets(upd.peso, old.peso)
                                THEN Val(upd.peso) ELSE c.peso
                    /\ (c = old) => n = ApplyUpdate(c, upd)
      /\ C5_Refresh(p)

\* C5 (amended): the commit of a patch writes exactly the fields of the
\* partial input whose value differs from the value the patch read, and
\* leaves every other field of the row and every other row as they are; when
\* no other request changed the row since the patch read it, every field
\* sent ends with the value sent.  The response is the row as persisted when
\* the refresh reads it.
C5_PatchWritesChanges == [][C5_Step]_vars

\* C5 as claimed: after the commit of a patch every field sent has the value
\* sent, every other field and row is unchanged, and the response is the
\* persisted row.
C5_PatchSetsPresent ==
    [][\A p \in Procs :
         /\ PatchCommitted(p) =>
              LET old == Val(loaded[p])
                  upd == req[p].upd
              IN /\ OthersUnchanged(old.id)
                 /\ \A c \in SelectById(db, old.id) :
                       SelectById(db', old.id) = {ApplyUpdate(c, upd)}
         /\ C5_Refresh(p)]_vars

\* A patch of the weight alone answered 200 with the new weight and the old
\* name, the other row untouched.
C5_Witness ==
    \E p \in Procs :
      /\ Done(p) /\ req[p].op = "patch" /\ status[p] = HTTP_200_OK
      /\ req[p].id = 11 /\ req[p].upd = [nome |-> {}, peso |-> {80}]
      /\ body[p] = {[SeedA EXCEPT !.peso = 80]}
      /\ db = {[SeedA EXCEPT !.peso = 80], SeedB}

\* ---- C6
C6_Inv == \A id \in gone : SelectById(db, id) = {}

C6_Step ==
    \A p \in Procs :
      /\ \A label \in SelectLabels :
           (Stepped(p, label) /\ req'[p].id \in gone)
             => Done(p)' /\ status'[p] = HTTP_404_NOT_FOUND
      /\ (Stepped(p, "delete_commit") /\ status'[p] = HTTP_204_NO_CONTENT)
           => /\ db' = { r \in db : r.id # req[p].id }
              /\ req[p].id \in gone'

\* C6: once a delete of an id has answered 204 no row has that id again, so
\* every get, patch or delete of it that is issued afterwards answers 404;
\* the delete removes the row with that id and no other.
C6_DeletedStaysGone == []C6_Inv /\ [][C6_Step]_vars

\* A seeded row was deleted and then asked for; the other row is still there.
C6_Witness ==
    \E p, q \in Procs :
      /\ Done(q) /\ req[q].op = "delete" /\ req[q].id = 11
      /\ status[q] = HTTP_204_NO_CONTENT
      /\ Done(p) /\ req[p].op = "get" /\ req[p].id = 11
      /\ status[p] = HTTP_404_NOT_FOUND
      /\ db = {SeedB}

\* ---- C7
\* filtro occurs in nome, letter case aside.
ContainsFold(nome, filtro) ==
    \E i \in 0..(Len(nome) - Len(filtro)) :
      \A j \in 1..Len(filtro) : Lower(nome[i + j]) = Lower(filtro[j])

\* The same, with a _ of filtro standing for any one character.
ContainsWild(nome, filtro) ==
    \E i \in 0..(Len(nome) - Len(filtro)) :
      \A j \in 1..Len(filtro) :
        filtro[j] = "_" \/ Lower(nome[i + j]) = Lower(filtro[j])

HasPercent(filtro) == \E j \in 1..Len(filtro) : filtro[j] = "%"

C7_Step ==
    \A p \in Procs :
      Stepped(p, "query_execute") =>
        LET fn == req'[p].fnome
            fc == req'[p].fcpf
            nameOk(r) ==
                (fn # {} /\ Val(fn) # <<>>) => ContainsWild(r.nome, Val(fn))
            cpfOk(r) == (fc # {} /\ Val(fc) # "") => r.cpf = Val(fc)
        IN /\ Done(p)' /\ status'[p] = HTTP_200_OK /\ db' = db
           /\ (fn = {} \/ ~HasPercent(Val(fn)))
                => body'[p] = { r \in db : nameOk(r) /\ cpfOk(r) }
           /\ body'[p] \subseteq { r \in db : cpfOk(r) }
           /\ (fc # {} /\ Val(fc) # "") => Cardinality(body'[p]) <= 1

Statuses ==
    {HTTP_200_OK, HTTP_201_CREATED, HTTP_204_NO_CONTENT, HTTP_400_BAD_REQUEST,
     HTTP_404_NOT_FOUND, HTTP_409_CONFLICT, HTTP_500_INTERNAL_SERVER_ERROR}

\* C8: every request that ends has answered with an HTTP status of its
\* handler; no exception leaves a handler uncaught.
C8_AllCaught ==
    \A p \in Procs :
      /\ exc[p] = "none"
      /\ Done(p) => status[p] \in Statuses

\* ---- C9
\* C9: a create that passed both reference checks answers 409 exactly when
\* its insert violated the uniqueness of the CPF; any other persistence
\* failure is rolled back and answered 500; a failed create leaves no row.
C9_ConflictIffCpf ==
    \A p \in Procs :
      (Done(p) /\ BuiltPost(p)) =>
        /\ status[p] = HTTP_409_CONFLICT <=> cause[p] = "unique_cpf"
        /\ cause[p] \in {"integrity_other", "db_error"}
             => status[p] = HTTP_500_INTERNAL_SERVER_ERROR /\ rolled[p]
        /\ status[p] # HTTP_201_CREATED
             => SelectById(db, p) = {} /\ pend[p] = {}

\* ---- C10
\* The outcomes the interface documents for each operation.
Documented(op) ==
    CASE op = "post" -> {HTTP_201_CREATED, HTTP_400_BAD_REQUEST,
                         HTTP_409_CONFLICT, HTTP_500_INTERNAL_SERVER_ERROR}
      [] op = "query" -> {HTTP_200_OK}
      [] op = "get" -> {HTTP_200_OK, HTTP_404_NOT_FOUND}
      [] op = "patch" -> {HTTP_200_OK, HTTP_404_NOT_FOUND}
      [] op = "delete" -> {HTTP_204_NO_CONTENT, HTTP_404_NOT_FOUND}

\* The rows request p leaves when it runs alone on rows.
Alone(rows, p) ==
    LET r == req[p]
        hit == SelectById(rows, r.id)
    IN CASE r.op = "post" /\ BuiltPost(p) /\ RowsWithCpf(rows, r.cpf) = {} ->
              rows \cup {NewRow(p, r)}
         [] r.op = "patch" /\ hit # {} ->
              (rows \ hit) \cup {ApplyUpdate(Val(hit), r.upd)}
         [] r.op = "delete" -> rows \ hit
         [] OTHER -> rows

RECURSIVE InOrder(_, _)
InOrder(rows, order) ==
    IF order = <<>> THEN rows
    ELSE InOrder(Alone(rows, Head(order)), Tail(order))

Orders ==
    { o \in [1..NReqs -> Procs] : \A i, j \in 1..NReqs : o[i] = o[j] => i = j }

\* No request of the run met a failure of the database itself.
NoDbFailure == \A p \in Procs : cause[p] \in {"none", "unique_cpf"}

\* C10: when the database itself does not fail, every request ends with an
\* outcome documented for its operation, however the requests interleave,
\* and the rows left when all have ended are those of some serial order.
C10_Serializable ==
    NoDbFailure =>
      /\ \A p \in Procs :
           Done(p) => exc[p] = "none" /\ status[p] \in Documented(req[p].op)
      /\ (\A p \in Procs : Done(p))
           => \E o \in Orders : db = InOrder(db0, o)

====
